---- MODULE Spec2Model ----
(***************************************************************************)
(* ScopeMap (src/src/map.rs) and ScopeSet (src/src/set.rs): a layered hash *)
(* map / set for representing the scopes of variables.                     *)
(*                                                                         *)
(* map    : the IndexMap<K, SmallVec<V>>, as the sequence of its slots in  *)
(*          insertion order; slot index i of the code is position i + 1.   *)
(* layers : the SmallVec<HashSet<usize>> of layer-sets of slot indices.    *)
(* aborted: TRUE once an unwrap() of the code has panicked.                *)
(* last   : the call that produced the current state and what it returned  *)
(*          (for define: is_new, whether the stack grew); its key and      *)
(*          value are Options, None for a call without one.                *)
(* snaps  : per layer, what was visible when the layer was pushed.         *)
(* live   : per layer, the keys defined in it and not retracted since.     *)
(* bound  : per layer, the value each key was last defined with in it, if  *)
(*          that definition was not retracted since.                       *)
(* seen   : the keys defined since construction or the last clear_all.     *)
(* calls  : the number of calls made on the container so far.              *)
(***************************************************************************)
EXTENDS Integers, Sequences, FiniteSets, TLC

VARIABLES map, layers, aborted, last, snaps, live, bound, seen, calls

vars == <<map, layers, aborted, last, snaps, live, bound, seen, calls>>

\* ------------------------------------------------------------------ bounds
NumKeys == 2
NumValues == 2
MaxCalls == 5
MaxSkip == 3

Keys == 1..NumKeys
Values == 1..NumValues

\* Option<T>: None is the empty sequence, Some(x) the one-element sequence.
None == <<>>
Some(x) == <<x>>

\* --------------------------------------------------- IndexMap and SmallVec
\* IndexMap::get_full(key): the slot index of key, if the key has a slot.
get_full(m, key) ==
  IF \E i \in 1..Len(m) : m[i].key = key
    THEN Some((CHOOSE i \in 1..Len(m) : m[i].key = key) - 1)
    ELSE None

\* The shadow stack of the slot at a slot index.
stack_at(m, stack_index) == m[stack_index + 1].stack

\* A pop that removes two elements.
stack_pop_two(stack) ==
  IF Len(stack) <= 2 THEN <<>> ELSE SubSeq(stack, 1, Len(stack) - 2)

\* A pop that leaves the vector as it is.
stack_pop_nothing(stack) == stack

\* SmallVec::pop: removes the last element; an empty vector stays empty.
stack_pop(stack) ==
  IF stack = <<>> THEN stack ELSE SubSeq(stack, 1, Len(stack) - 1)

\* [T]::last
stack_last(stack) ==
  IF stack = <<>> THEN None ELSE Some(stack[Len(stack)])

\* The n-th element from the bottom: the rev() left out.
rev_nth_from_bottom(stack, n) ==
  IF n < Len(stack) THEN Some(stack[n + 1]) ELSE None

\* iter().rev().nth(n)
rev_nth(stack, n) ==
  IF n < Len(stack) THEN Some(stack[Len(stack) - n]) ELSE None

\* layers.last()
top_layer(ls) == ls[Len(ls)]

\* ------------------------------------------------------------ the queries
is_empty(m) == Len(m) = 0

len(m) == Len(m)

layer_count(ls) == Len(ls)

contains_key(m, key) == get_full(m, key) # None

\* The index looked up in every layer-set instead of the top one.
contains_key_at_top_any_layer(m, ls, key) ==
  LET full == get_full(m, key)
  IN  IF full = None THEN FALSE ELSE \E i \in 1..Len(ls) : full[1] \in ls[i]

contains_key_at_top(m, ls, key) ==
  LET full == get_full(m, key)
  IN  IF full = None THEN FALSE ELSE full[1] \in top_layer(ls)

get(m, key) ==
  LET full == get_full(m, key)
  IN  IF full = None THEN None ELSE stack_last(stack_at(m, full[1]))

\* The layers taken from the bottom: the rev() left out.
stack_skip_count_from_bottom(ls, stack_index, skip_count) ==
  Cardinality({i \in 1..Len(ls) :
                 /\ i <= skip_count
                 /\ stack_index \in ls[i]})

\* One layer too many taken from the top.
stack_skip_count_one_more(ls, stack_index, skip_count) ==
  Cardinality({i \in 1..Len(ls) :
                 /\ i >= Len(ls) - skip_count
                 /\ stack_index \in ls[i]})

\* The number of layer-sets among the top skip_count layers that contain
\* the slot index (layers.iter().rev().take(skip_count).filter(..).count()).
stack_skip_count(ls, stack_index, skip_count) ==
  Cardinality({i \in 1..Len(ls) :
                 /\ i > Len(ls) - skip_count
                 /\ stack_index \in ls[i]})

get_parent(m, ls, key, skip_count) ==
  LET full == get_full(m, key)
  IN  IF full = None
        THEN None
        ELSE rev_nth(stack_at(m, full[1]),
                     stack_skip_count(ls, full[1], skip_count))

\* ScopeMap::depth_of is called by ScopeSet::depth_of but is not part of
\* map.rs: the number of layers scanned from the top before the first layer
\* whose set contains the key's slot index.
depth_of(m, ls, key) ==
  LET full == get_full(m, key)
      hits == IF full = None THEN {}
              ELSE {i \in 1..Len(ls) : full[1] \in ls[i]}
  IN  IF hits = {} THEN None
      ELSE Some(Len(ls) - (CHOOSE i \in hits : \A j \in hits : j <= i))

\* ------------------------------------------------------------- ScopeSet
set_contains(m, key) == contains_key(m, key)

set_contains_at_top(m, ls, key) == contains_key_at_top(m, ls, key)

set_depth_of(m, ls, key) == depth_of(m, ls, key)

\* --------------------------------------------------------------- history
\* What every key resolves to, and the number of layers.
Visible(m) == [k \in Keys |-> get(m, k)]

Snapshot(m, ls) == [vis |-> Visible(m), count |-> layer_count(ls)]

\* A layer in which no key is defined.
Unbound == [k \in Keys |-> None]

Call(op, key, val, ret) == [op |-> op, key |-> key, val |-> val, ret |-> ret]

\* ---------------------------------------------------------- construction
Init ==
  /\ map = <<>>
  /\ layers = <<{}>>
  /\ aborted = FALSE
  /\ last = Call("new", None, None, FALSE)
  /\ snaps = <<Snapshot(<<>>, <<>>)>>
  /\ live = <<{}>>
  /\ bound = <<Unbound>>
  /\ seen = {}
  /\ calls = 0

\* ------------------------------------------------------------ operations
\* One more call is made on the container, while the model allows one.
called == calls < MaxCalls /\ calls' = calls + 1

\* A retraction that also removes the slots whose stack it has emptied.
pop_stacks_drops_emptied(m, indices) ==
  LET popped == [i \in 1..Len(m) |->
                   IF (i - 1) \in indices
                     THEN [m[i] EXCEPT !.stack = stack_pop(@)]
                     ELSE m[i]]
      kept(slot) == slot.stack # <<>>
  IN  SelectSeq(popped, kept)

\* A retraction that stops after the first index of the set.
pop_stacks_first_only(m, indices) ==
  [i \in 1..Len(m) |->
     IF (i - 1) \in indices /\ \A j \in indices : i - 1 <= j
       THEN [m[i] EXCEPT !.stack = stack_pop(@)]
       ELSE m[i]]

\* One pass of the loop that also removes a slot whose stack it has emptied.
pop_one_drops_emptied(m, stack_index) ==
  IF stack_index < Len(m)
    THEN IF Len(stack_at(m, stack_index)) <= 1
           THEN SubSeq(m, 1, stack_index) \o SubSeq(m, stack_index + 2, Len(m))
           ELSE [m EXCEPT ![stack_index + 1].stack = stack_pop(@)]
    ELSE m

\* One pass of the loop over a layer-set: the stack of the slot at the index
\* is popped, an index without a slot is skipped.
pop_one(m, stack_index) ==
  IF stack_index < Len(m)
    THEN [m EXCEPT ![stack_index + 1].stack = stack_pop(@)]
    ELSE m

\* The loop over a layer-set, its indices taken in the given order.
RECURSIVE pop_in_order(_, _)
pop_in_order(m, order) ==
  IF order = <<>> THEN m
  ELSE pop_in_order(pop_one(m, Head(order)), Tail(order))

\* The orders in which a HashSet may yield its elements.
Orders(set) ==
  {order \in [1..Cardinality(set) -> set] :
     \A i, j \in 1..Cardinality(set) : order[i] = order[j] => i = j}

\* The stacks left as they are when a layer-set is retracted.
pop_stacks_forgotten(m, indices) == m

\* One value popped off the shadow stack of every slot whose index is in
\* the set; an index without a slot is skipped (get_index_mut is None).
pop_stacks(m, indices) ==
  [i \in 1..Len(m) |->
     IF (i - 1) \in indices
       THEN [m[i] EXCEPT !.stack = stack_pop(@)]
       ELSE m[i]]

\* A pushed layer that starts as a copy of the layer below it.
new_layer_copies_top(ls) == top_layer(ls)

\* The layer pushed by push_layer.
new_layer(ls) == {}

\* push_layer: appends an empty layer-set.
push_layer ==
  /\ ~aborted
  /\ called
  /\ layers' = Append(layers, new_layer(layers))
  /\ map' = map
  /\ aborted' = aborted
  /\ last' = Call("push_layer", None, None, FALSE)
  /\ snaps' = Append(snaps, Snapshot(map, layers))
  /\ live' = Append(live, {})
  /\ bound' = Append(bound, Unbound)
  /\ seen' = seen

\* The condition with the comparison off by one: the base layer is popped.
has_outer_layer_any(ls) == Len(ls) >= 1

\* The condition under which pop_layer removes a layer.
has_outer_layer(ls) == Len(ls) > 1

\* The map and the layers as pop_layer leaves them.
pop_layer_state(m, ls) ==
  IF has_outer_layer(ls)
    THEN [map |-> pop_stacks(m, top_layer(ls)),
          layers |-> SubSeq(ls, 1, Len(ls) - 1)]
    ELSE [map |-> m, layers |-> ls]

\* pop_layer: with more than one layer, removes the top layer-set and pops
\* one value per index it holds, and returns true; otherwise returns false.
pop_layer ==
  /\ ~aborted
  /\ called
  /\ IF has_outer_layer(layers)
       THEN /\ layers' = pop_layer_state(map, layers).layers
            /\ map' = pop_layer_state(map, layers).map
            /\ last' = Call("pop_layer", None, None, TRUE)
            /\ snaps' = SubSeq(snaps, 1, Len(snaps) - 1)
            /\ live' = SubSeq(live, 1, Len(live) - 1)
            /\ bound' = SubSeq(bound, 1, Len(bound) - 1)
       ELSE /\ layers' = pop_layer_state(map, layers).layers
            /\ map' = pop_layer_state(map, layers).map
            /\ last' = Call("pop_layer", None, None, FALSE)
            /\ snaps' = snaps
            /\ live' = live
            /\ bound' = bound
  /\ aborted' = aborted
  /\ seen' = seen

\* A redefinition that leaves the old value on the stack.
define_stack_keeps_old(stack, is_new, value) ==
  IF is_new THEN Append(stack, value) ELSE stack

\* A redefinition that pushes another value instead of overwriting.
define_stack_always_pushes(stack, is_new, value) == Append(stack, value)

\* What define does to the shadow stack of the key: a push where the slot
\* index is new to the top layer-set, otherwise an overwrite of the top.
define_stack(stack, is_new, value) ==
  IF is_new
    THEN Append(stack, value)
    ELSE [stack EXCEPT ![Len(stack)] = value]

\* define: the entry of the key is found or appended with an empty stack;
\* a slot index new to the top layer-set pushes the value, a known one
\* overwrites the top of the stack (unwrap: panics on an empty stack).
define(key, value) ==
  LET full == get_full(map, key)
      stack_index == IF full = None THEN Len(map) ELSE full[1]
      entered == IF full = None
                   THEN Append(map, [key |-> key, stack |-> <<>>])
                   ELSE map
      stack == stack_at(entered, stack_index)
      is_new == stack_index \notin top_layer(layers)
  IN  /\ ~aborted
      /\ called
      /\ layers' = [layers EXCEPT ![Len(layers)] = @ \cup {stack_index}]
      /\ IF ~is_new /\ stack = <<>>
           THEN /\ map' = entered
                /\ aborted' = TRUE
           ELSE /\ map' = [entered EXCEPT ![stack_index + 1].stack =
                                define_stack(@, is_new, value)]
                /\ aborted' = aborted
      /\ last' = Call("define", Some(key), Some(value), is_new)
      /\ snaps' = snaps
      /\ live' = [live EXCEPT ![Len(live)] = @ \cup {key}]
      /\ bound' = [bound EXCEPT ![Len(bound)][key] = Some(value)]
      /\ seen' = seen \cup {key}

\* The test of the top layer-set left out: any key with a slot is removed.
delete_removes_any_slot(m, ls, key) == get_full(m, key) # None

\* Whether delete finds the slot index of the key in the top layer-set.
delete_removes(m, ls, key) ==
  LET full == get_full(m, key)
  IN  full # None /\ full[1] \in top_layer(ls)

\* The map and the layers as delete leaves them.
delete_state(m, ls, key) ==
  LET full == get_full(m, key)
  IN  IF delete_removes(m, ls, key)
        THEN [map |-> [m EXCEPT ![full[1] + 1].stack = stack_pop(@)],
              layers |-> [ls EXCEPT ![Len(ls)] = @ \ {full[1]}]]
        ELSE [map |-> m, layers |-> ls]

\* delete: a key whose slot index is in the top layer-set loses the index
\* there and one value of its stack, and true is returned; otherwise false.
delete(key) ==
  LET removed == delete_removes(map, layers, key)
  IN  /\ ~aborted
      /\ called
      /\ layers' = delete_state(map, layers, key).layers
      /\ map' = delete_state(map, layers, key).map
      /\ aborted' = aborted
      /\ last' = Call("delete", Some(key), None, removed)
      /\ snaps' = snaps
      /\ live' = [live EXCEPT ![Len(live)] = @ \ {key}]
      /\ bound' = [bound EXCEPT ![Len(bound)][key] = None]
      /\ seen' = seen

\* clear_top: drains the top layer-set, popping one value per index
\* (unwrap: panics on an index without a slot, after popping the stacks of
\* the indices drained before it).
clear_top ==
  LET top == top_layer(layers)
      valid == {i \in top : i < Len(map)}
  IN  /\ ~aborted
      /\ called
      /\ layers' = [layers EXCEPT ![Len(layers)] = {}]
      /\ IF valid = top
           THEN /\ map' = pop_stacks(map, top)
                /\ aborted' = aborted
           ELSE /\ \E done \in SUBSET valid : map' = pop_stacks(map, done)
                /\ aborted' = TRUE
      /\ last' = Call("clear_top", None, None, FALSE)
      /\ snaps' = snaps
      /\ live' = [live EXCEPT ![Len(live)] = {}]
      /\ bound' = [bound EXCEPT ![Len(bound)] = Unbound]
      /\ seen' = seen

\* The map left uncleared.
cleared_map_forgotten(m) == m

\* IndexMap::clear: no slot is left.
cleared_map(m) == <<>>

\* The layers left uncleared before the empty layer is pushed.
cleared_layers_forgotten(ls) == Append(ls, {})

\* layers.clear() and the push of one empty layer.
cleared_layers(ls) == Append(<<>>, {})

\* clear_all: clears the map and the layers and pushes one empty layer.
clear_all ==
  /\ ~aborted
  /\ called
  /\ map' = cleared_map(map)
  /\ layers' = cleared_layers(layers)
  /\ aborted' = aborted
  /\ last' = Call("clear_all", None, None, FALSE)
  /\ snaps' = <<Snapshot(<<>>, <<>>)>>
  /\ live' = <<{}>>
  /\ bound' = <<Unbound>>
  /\ seen' = {}

\* The slot looked up instead of the topmost value.
index_panics_without_slot(m, key) == ~contains_key(m, key)

\* Whether the expect() of Index panics: get returned None.
index_panics(m, key) == get(m, key) = None

\* Index (map[key]): the value get returns, or a panic where it is None.
index(key) ==
  /\ ~aborted
  /\ called
  /\ aborted' = index_panics(map, key)
  /\ last' = Call("index", Some(key), get(map, key), ~index_panics(map, key))
  /\ UNCHANGED <<map, layers, snaps, live, bound, seen>>

Next ==
  \/ push_layer
  \/ pop_layer
  \/ \E key \in Keys, value \in Values : define(key, value)
  \/ \E key \in Keys : delete(key)
  \/ clear_top
  \/ clear_all
  \/ \E key \in Keys : index(key)

Spec == Init /\ [][Next]_vars

\* ------------------------------------------------------------ properties
\* The shadow stack of a key (empty for a key without a slot).
stack_of(m, key) ==
  LET full == get_full(m, key)
  IN  IF full = None THEN <<>> ELSE stack_at(m, full[1])

\* C1: layer_count() >= 1 in every reachable state, and pop_layer() called
\* with exactly one layer returns false and leaves layer_count() and what
\* every key resolves to unchanged.
C1_BaseLayerNeverRemoved ==
  /\ [](layer_count(layers) >= 1)
  /\ [][(last'.op = "pop_layer" /\ layer_count(layers) = 1)
          => /\ last'.ret = FALSE
             /\ layer_count(layers') = layer_count(layers)
             /\ Visible(map') = Visible(map)]_vars

\* A refused pop_layer on a base layer that holds a visible key.
C1_Witness ==
  /\ last.op = "pop_layer"
  /\ last.ret = FALSE
  /\ layer_count(layers) = 1
  /\ \E k \in Keys : get(map, k) # None

\* C2: a pop_layer() that removes a layer restores, for every key, the
\* get(key) result that held when that layer was pushed, and the
\* layer_count() of that moment, whatever define, delete, clear_top and
\* balanced push_layer/pop_layer calls were made in between.
C2_ScopeRoundTrip ==
  [][(last'.op = "pop_layer" /\ last'.ret)
       => /\ Visible(map') = snaps[Len(snaps)].vis
          /\ layer_count(layers') = snaps[Len(snaps)].count]_vars

\* A layer was popped: one key is back to a visible outer binding, another
\* key that only the popped layers defined has a slot and resolves to absent.
C2_Witness ==
  /\ last.op = "pop_layer"
  /\ last.ret
  /\ \E k1, k2 \in Keys :
       /\ get(map, k1) # None
       /\ contains_key(map, k2)
       /\ get(map, k2) = None

\* C3: contains_key(key) (and ScopeSet::contains) is true exactly when
\* get(key) is not absent.
C3_ContainsIffVisible ==
  \A k \in Keys :
    /\ contains_key(map, k) <=> (get(map, k) # None)
    /\ set_contains(map, k) <=> (get(map, k) # None)

\* C4: right after define(k, v), get(k) returns v and
\* contains_key_at_top(k) is true.
C4_DefineThenGet ==
  last.op = "define"
    => /\ get(map, last.key[1]) = last.val
       /\ contains_key_at_top(map, layers, last.key[1])

\* A define that shadows an outer binding of the key.
C4_Witness ==
  /\ last.op = "define"
  /\ layer_count(layers) > 1
  /\ Len(stack_of(map, last.key[1])) >= 2

\* C5: a define(k, .) of a key that the current layer already defines
\* leaves the length of the key's shadow stack unchanged, so that a single
\* successful delete(k), or a single pop_layer(), makes get(k) return what
\* was visible before the layer was pushed (absent in the base layer).
C5_RedefinitionInPlace ==
  /\ [][(last'.op = "define" /\ last'.key[1] \in live[Len(live)])
          => /\ Len(stack_of(map', last'.key[1])) = Len(stack_of(map, last'.key[1]))
             /\ layers' = layers]_vars
  /\ [][(last'.op = "delete" /\ last'.ret)
          => get(map', last'.key[1]) = snaps[Len(snaps)].vis[last'.key[1]]]_vars
  /\ [][(last'.op = "pop_layer" /\ last'.ret)
          => \A k \in live[Len(live)] :
               get(map', k) = snaps[Len(snaps)].vis[k]]_vars

\* A define of a key that the top layer already defines, over an outer
\* binding of the key.
C5_Witness ==
  /\ last.op = "define"
  /\ last.ret = FALSE
  /\ layer_count(layers) > 1
  /\ Len(stack_of(map, last.key[1])) = 2

\* C6: delete(k) returns false exactly when k's slot index is not in the
\* top layer-set, and then the map and the layer-sets (and so every get
\* result and layer_count()) are unchanged.
C6_DeleteLayerScoped ==
  [][last'.op = "delete"
       => /\ last'.ret = contains_key_at_top(map, layers, last'.key[1])
          /\ last'.ret = FALSE
               => /\ map' = map
                  /\ layers' = layers
                  /\ Visible(map') = Visible(map)
                  /\ layer_count(layers') = layer_count(layers)]_vars

\* A refused delete of a key inherited from an outer layer, still visible.
C6_Witness ==
  /\ last.op = "delete"
  /\ last.ret = FALSE
  /\ layer_count(layers) > 1
  /\ get(map, last.key[1]) # None

\* C7: contains_key_at_top(k) (and ScopeSet::contains_at_top) is true
\* exactly when the top layer holds a live definition of k; it is false for
\* every key right after push_layer().
C7_ContainsAtTop ==
  /\ \A k \in Keys :
       /\ contains_key_at_top(map, layers, k) <=> k \in live[Len(live)]
       /\ set_contains_at_top(map, layers, k) <=> k \in live[Len(live)]
  /\ last.op = "push_layer"
       => \A k \in Keys : ~contains_key_at_top(map, layers, k)

\* One key defined in the top layer, another visible from an outer layer
\* only.
C7_Witness ==
  /\ layer_count(layers) > 1
  /\ \E k1, k2 \in Keys :
       /\ contains_key_at_top(map, layers, k1)
       /\ ~contains_key_at_top(map, layers, k2)
       /\ get(map, k2) # None

\* C8: push_layer() raises depth_of(k) by one for every visible key (so N
\* calls raise it by N), depth_of(k) is the number of layers pushed since
\* the innermost live definition of k, it is Some(0) right after define(k),
\* and it is absent exactly when get(k) is absent.
C8_DepthOf ==
  /\ [][last'.op = "push_layer"
          => \A k \in Keys :
               set_depth_of(map, layers, k) # None
                 => set_depth_of(map', layers', k) =
                      Some(set_depth_of(map, layers, k)[1] + 1)]_vars
  /\ [](\A k \in Keys :
          /\ (set_depth_of(map, layers, k) = None) <=> (get(map, k) = None)
          /\ \A i \in 1..Len(live) :
               (k \in live[i] /\ \A j \in (i + 1)..Len(live) : k \notin live[j])
                 => set_depth_of(map, layers, k) = Some(Len(live) - i))
  /\ [](last.op = "define"
          => set_depth_of(map, layers, last.key[1]) = Some(0))

\* Two layers pushed over a key that was not redefined.
C8_Witness ==
  /\ last.op = "push_layer"
  /\ \E k \in Keys : set_depth_of(map, layers, k) = Some(2)

\* C9: get_parent(key, 0) returns the same result as get(key), for every
\* key.
C9_GetParentZero ==
  \A k \in Keys : get_parent(map, layers, k, 0) = get(map, k)

\* One key with a slot and an emptied stack, another shadowed in the top
\* layer.
C9_Witness ==
  \E k1, k2 \in Keys :
    /\ contains_key(map, k1)
    /\ stack_of(map, k1) = <<>>
    /\ Len(stack_of(map, k2)) >= 2
    /\ contains_key_at_top(map, layers, k2)

\* C10: after clear_all(), layer_count() = 1, len() = 0, is_empty() is true
\* and get(k) is absent for every key; the map and the layers are those of
\* a new container.
C10_ClearAll ==
  last.op = "clear_all"
    => /\ layer_count(layers) = 1
       /\ len(map) = 0
       /\ is_empty(map)
       /\ \A k \in Keys : get(map, k) = None
       /\ map = <<>>
       /\ layers = <<{}>>

\* clear_all() has just been called.
C10_Witness ==
  /\ last.op = "clear_all"
  /\ ~aborted

\* The values a query may return.
OptionValues == {None} \cup {Some(v) : v \in Values}

\* C11: the indexed accessor panics exactly when get(key) is absent and
\* otherwise returns the value get(key) holds, leaving the container as it
\* was; get, get_parent, contains_key and contains_key_at_top yield a result
\* in every state.
C11_IndexPanicsIffAbsent ==
  /\ [][last'.op = "index"
          => /\ aborted' = (get(map, last'.key[1]) = None)
             /\ ~aborted' => last'.val = get(map, last'.key[1])
             /\ map' = map
             /\ layers' = layers]_vars
  /\ [](\A k \in Keys :
          /\ get(map, k) \in OptionValues
          /\ contains_key(map, k) \in BOOLEAN
          /\ contains_key_at_top(map, layers, k) \in BOOLEAN
          /\ \A n \in 0..MaxSkip :
               get_parent(map, layers, k, n) \in OptionValues)

\* The accessor has panicked on a key that has a slot with an emptied stack.
C11_Witness ==
  /\ last.op = "index"
  /\ aborted
  /\ contains_key(map, last.key[1])

DefinedKeys == UNION {live[i] : i \in 1..Len(live)}

\* C13: len() is the number of keys for which some active layer holds a
\* definition, and is_empty() is true exactly when there is no such key.
C13_LenCountsDefinedKeys ==
  /\ len(map) = Cardinality(DefinedKeys)
  /\ is_empty(map) <=> (DefinedKeys = {})

\* The layers, lowest first, in which the key has a live definition.
RECURSIVE DefiningLayers(_, _)
DefiningLayers(key, upto) ==
  IF upto = 0 THEN <<>>
  ELSE IF key \in live[upto]
    THEN Append(DefiningLayers(key, upto - 1), upto)
    ELSE DefiningLayers(key, upto - 1)

\* C14: for every key with a slot, the length of its shadow stack is the
\* number of layer-sets that contain its slot index, and the i-th entry from
\* the bottom is the value last defined in the i-th lowest layer that
\* defines the key.
C14_StackMatchesLayers ==
  \A k \in Keys :
    contains_key(map, k) =>
      LET idx == get_full(map, k)[1]
          stack == stack_at(map, idx)
          defining == DefiningLayers(k, Len(live))
      IN  /\ Len(stack) = Cardinality({i \in 1..Len(layers) : idx \in layers[i]})
          /\ Len(stack) = Len(defining)
          /\ \A i \in 1..Len(stack) :
               /\ idx \in layers[defining[i]]
               /\ Some(stack[i]) = bound[defining[i]][k]

\* A key with different values in two layers, below a layer without it.
C14_Witness ==
  /\ layer_count(layers) = 3
  /\ \E k \in Keys :
       /\ Len(stack_of(map, k)) = 2
       /\ stack_of(map, k)[1] # stack_of(map, k)[2]
       /\ ~contains_key_at_top(map, layers, k)

\* The smaller of two numbers.
Min(a, b) == IF a <= b THEN a ELSE b

\* C15: get_parent(key, n) returns the value at position c from the top of
\* the key's shadow stack, c being the number of layer-sets among the top
\* min(n, layer_count()) layers that contain the key's slot index (the
\* layers among them that define the key); it is absent when the key has no
\* slot or c is the length of the stack, and c is never more than that.
C15_GetParentSkipsDefiningLayers ==
  \A k \in Keys, n \in 0..MaxSkip :
    LET taken == (Len(layers) - Min(n, layer_count(layers)) + 1)..Len(layers)
        c == IF contains_key(map, k)
               THEN Cardinality({i \in taken :
                                   get_full(map, k)[1] \in layers[i]})
               ELSE 0
        stack == stack_of(map, k)
        defining == DefiningLayers(k, Len(live))
    IN  /\ c = Cardinality({i \in taken : k \in live[i]})
        /\ c <= Len(stack)
        /\ IF ~contains_key(map, k) \/ c = Len(stack)
             THEN get_parent(map, layers, k, n) = None
             ELSE /\ get_parent(map, layers, k, n) = Some(stack[Len(stack) - c])
                  /\ get_parent(map, layers, k, n) =
                       bound[defining[Len(defining) - c]][k]

\* A key defined in the base layer and in the top layer of three: skipping
\* two layers passes one definition and yields the base value.
C15_Witness ==
  /\ layer_count(layers) = 3
  /\ \E k \in Keys :
       /\ Len(stack_of(map, k)) = 2
       /\ contains_key_at_top(map, layers, k)
       /\ get_parent(map, layers, k, 2) = Some(stack_of(map, k)[1])
       /\ get_parent(map, layers, k, 2) # get(map, k)
       /\ get_parent(map, layers, k, 3) = None

\* The map and the layers after n calls of pop_layer.
RECURSIVE PopN(_, _, _)
PopN(m, ls, n) ==
  IF n = 0 THEN [map |-> m, layers |-> ls]
  ELSE PopN(pop_layer_state(m, ls).map, pop_layer_state(m, ls).layers, n - 1)

\* C16: for n < layer_count(), get_parent(key, n) is what get(key) returns
\* after n calls of pop_layer() on a copy of the container; for
\* n >= layer_count() it is absent.
C16_GetParentIsGetAfterPops ==
  \A k \in Keys, n \in 0..MaxSkip :
    get_parent(map, layers, k, n) =
      IF n < layer_count(layers)
        THEN get(PopN(map, layers, n).map, k)
        ELSE None

\* A key defined in the base layer and in the top layer of three, with
\* different values: one layer down the base value is visible, and with all
\* layers skipped nothing is.
C16_Witness ==
  /\ layer_count(layers) = 3
  /\ \E k \in Keys :
       /\ contains_key_at_top(map, layers, k)
       /\ get_parent(map, layers, k, 1) # None
       /\ get_parent(map, layers, k, 1) # get(map, k)
       /\ get_parent(map, layers, k, 1) = get_parent(map, layers, k, 2)
       /\ get_parent(map, layers, k, 3) = None

\* The map and the layers after delete(k) for every key of the set.
RECURSIVE DeleteEach(_, _, _)
DeleteEach(m, ls, keys) ==
  IF keys = {} THEN [map |-> m, layers |-> ls]
  ELSE LET k == CHOOSE k \in keys : TRUE
       IN  DeleteEach(delete_state(m, ls, k).map,
                      delete_state(m, ls, k).layers,
                      keys \ {k})

\* C17: clear_top() leaves layer_count() unchanged and the top layer-set
\* empty, and produces the map and layers that delete(k) for every key
\* defined in the top layer produces, and with more than one layer those
\* that pop_layer() followed by push_layer() produces; the keys not defined
\* in the top layer keep their get result.
C17_ClearTopIsDeleteEach ==
  [][last'.op = "clear_top"
       => /\ layer_count(layers') = layer_count(layers)
          /\ top_layer(layers') = {}
          /\ map' = DeleteEach(map, layers, live[Len(live)]).map
          /\ layers' = DeleteEach(map, layers, live[Len(live)]).layers
          /\ layer_count(layers) > 1
               => /\ map' = pop_layer_state(map, layers).map
                  /\ layers' = Append(pop_layer_state(map, layers).layers,
                                      new_layer(pop_layer_state(map, layers).layers))
          /\ \A k \in Keys \ live[Len(live)] : get(map', k) = get(map, k)]_vars

\* clear_top() has emptied an upper layer that defined both keys, over one
\* key that is still visible from an outer layer.
C17_Witness ==
  /\ last.op = "clear_top"
  /\ layer_count(layers) > 1
  /\ len(map) = 2
  /\ \E k1, k2 \in Keys : get(map, k1) # None /\ get(map, k2) = None

\* C18: no call but the indexed accessor panics; every slot index in a
\* layer-set refers to a slot, and the stack of every slot whose index is in
\* the top layer-set is not empty.
C18_NoMutatorPanics ==
  /\ aborted => last.op = "index"
  /\ \A i \in 1..Len(layers) : \A idx \in layers[i] : idx < Len(map)
  /\ \A idx \in top_layer(layers) :
       idx < Len(map) => stack_at(map, idx) # <<>>

\* A define has overwritten the top of a stack in a container that holds
\* two slots.
C18_Witness ==
  /\ last.op = "define"
  /\ last.ret = FALSE
  /\ ~aborted
  /\ len(map) = 2
  /\ layer_count(layers) > 1

\* What the nearest layer below the top that defines the key binds it to.
OuterBinding(key) ==
  LET outer == {i \in 1..(Len(bound) - 1) : bound[i][key] # None}
  IN  IF outer = {} THEN None
      ELSE bound[CHOOSE i \in outer : \A j \in outer : j <= i][key]

\* C19: a delete(k) that returns true removes the index from the top
\* layer-set only and pops exactly one value: contains_key_at_top(k) is
\* false afterwards, get(k) is the binding of the nearest outer layer that
\* defines k or absent, every other key's get result and layer_count() are
\* unchanged; a delete(k) of a key without a live definition in the top
\* layer, such as a second delete(k) in a row, returns false.
C19_DeleteRetractsOneBinding ==
  /\ [][(last'.op = "delete" /\ last'.ret)
          => LET k == last'.key[1]
                 idx == get_full(map, k)[1]
             IN  /\ layers' = [layers EXCEPT ![Len(layers)] = @ \ {idx}]
                 /\ idx \in top_layer(layers)
                 /\ Len(stack_of(map', k)) = Len(stack_of(map, k)) - 1
                 /\ ~contains_key_at_top(map', layers', k)
                 /\ get(map', k) = OuterBinding(k)
                 /\ \A k2 \in Keys \ {k} : get(map', k2) = get(map, k2)
                 /\ layer_count(layers') = layer_count(layers)]_vars
  /\ [][(last'.op = "delete" /\ last'.key[1] \notin live[Len(live)])
          => last'.ret = FALSE]_vars
  /\ [][(last'.op = "delete" /\ last.op = "delete" /\ last'.key = last.key)
          => last'.ret = FALSE]_vars

\* A delete has uncovered the binding of an outer layer, next to another key
\* that the top layer still defines.
C19_Witness ==
  /\ last.op = "delete"
  /\ last.ret
  /\ layer_count(layers) > 1
  /\ get(map, last.key[1]) # None
  /\ \E k2 \in Keys : contains_key_at_top(map, layers, k2)

\* C20: the loop of pop_layer() and clear_top() over the top layer-set
\* leaves the same map in whatever order the set yields its indices, each
\* index of the set causing exactly one pop on its own stack.
C20_RetractionOrderIndependent ==
  LET top == top_layer(layers)
  IN  \A order \in Orders(top) :
        LET after == pop_in_order(map, order)
        IN  /\ after = pop_stacks(map, top)
            /\ \A other \in Orders(top) : pop_in_order(map, other) = after
            /\ Len(after) = Len(map)
            /\ \A i \in 1..Len(map) :
                 /\ after[i].key = map[i].key
                 /\ Len(after[i].stack) =
                      IF (i - 1) \in top
                        THEN Len(map[i].stack) - 1
                        ELSE Len(map[i].stack)

\* An upper layer that defines two keys: its set has two orders.
C20_Witness ==
  /\ layer_count(layers) > 1
  /\ Cardinality(top_layer(layers)) = 2
  /\ Cardinality(Orders(top_layer(layers))) = 2

====
